---- MODULE Spec2Model ----
(***************************************************************************)
(* Encoder acquisition, calibration and normalisation pipeline of the      *)
(* ESP32 cockpit firmware: the three channel managers (throttle, brake,    *)
(* steering), the EncoderCalibration object each of them owns, and the     *)
(* EEPROM region the three calibration records share.                      *)
(*                                                                         *)
(* Integers are the 32-bit values of the target (int32_t, long and int are *)
(* all 32 bits wide on the ESP32); arithmetic that can leave that range is *)
(* done on 16-bit halves and wraps modulo 2^32, which is what the 32-bit   *)
(* add, subtract and multiply instructions of the build produce.           *)
(***************************************************************************)
EXTENDS Integers, Sequences, FiniteSets, TLC

----------------------------------------------------------------------------
(* Program constants                                                       *)

EEPROM_SIZE == 512
EEPROM_THROTTLE_ADDR == 0
EEPROM_BRAKE_ADDR == 16
EEPROM_STEERING_ADDR == 32
EEPROM_MAGIC_NUMBER == 51966        \* 0xCAFE

INT32_MAX == 2147483647
INT32_MIN == -2147483647 - 1

HIGH == 1
LOW == 0

\* Layout of struct CalibrationData under the target ABI (int32_t is 4-byte
\* aligned): magic at 0, two padding bytes, min at 4, max at 8, center at 12,
\* checksum at 16, two padding bytes; sizeof == 20.
OFF_MAGIC == 0
OFF_PAD0 == 2
OFF_MIN == 4
OFF_MAX == 8
OFF_CENTER == 12
OFF_CHECKSUM == 16
OFF_PAD1 == 18
SIZEOF_CalibrationData == 20

Channels == {"throttle", "brake", "steering"}

eeprom_address(ch) ==
    CASE ch = "throttle" -> EEPROM_THROTTLE_ADDR
      [] ch = "brake"    -> EEPROM_BRAKE_ADDR
      [] ch = "steering" -> EEPROM_STEERING_ADDR

is_bipolar(ch) == ch = "steering"

----------------------------------------------------------------------------
(* 32-bit two's-complement arithmetic                                      *)

Lo16(x) == x % 65536
Hi16(x) == (x \div 65536) % 65536

FromHalves(hi, lo) ==
    IF hi >= 32768 THEN (hi - 65536) * 65536 + lo ELSE hi * 65536 + lo

Add32(a, b) ==
    LET lo == Lo16(a) + Lo16(b)
        hi == Hi16(a) + Hi16(b) + (lo \div 65536)
    IN  FromHalves(hi % 65536, lo % 65536)

Sub32(a, b) ==
    LET lo == Lo16(a) - Lo16(b)
        hi == Hi16(a) - Hi16(b) - (IF lo < 0 THEN 1 ELSE 0)
    IN  FromHalves(hi % 65536, lo % 65536)

RECURSIVE MulU16(_, _)
\* a * m modulo 2^32 for an unsigned 16-bit m, by shift and add
MulU16(a, m) ==
    IF m = 0 THEN 0
    ELSE Add32(IF m % 2 = 1 THEN a ELSE 0, MulU16(Add32(a, a), m \div 2))

Mul32(a, b) ==
    Add32(MulU16(a, Lo16(b)), FromHalves(Lo16(MulU16(a, Hi16(b))), 0))

\* C division: the quotient truncates toward zero.  INT32_MIN / -1 does not
\* fit; the divide instruction of the target leaves INT32_MIN.
Div32(a, b) ==
    IF a = INT32_MIN /\ b = -1 THEN INT32_MIN
    ELSE LET q == a \div b
             exact == IF b > 0 THEN a % b = 0
                      ELSE IF b = INT32_MIN THEN a = 0 \/ a = INT32_MIN
                      ELSE a % (0 - b) = 0
         IN  IF ~exact /\ ((a < 0) # (b < 0)) THEN q + 1 ELSE q

RECURSIVE XorBits(_, _, _)
XorBits(a, b, n) ==
    IF n = 0 THEN 0
    ELSE (((a % 2) + (b % 2)) % 2) + 2 * XorBits(a \div 2, b \div 2, n - 1)

\* exclusive or of two 4-bit digits, tabulated
XorNibble == [a \in 0 .. 15 |-> [b \in 0 .. 15 |-> XorBits(a, b, 4)]]

\* the ^ operator on uint16_t, one hexadecimal digit at a time
Xor16(a, b) ==
    XorNibble[a % 16][b % 16]
    + 16 * XorNibble[(a \div 16) % 16][(b \div 16) % 16]
    + 256 * XorNibble[(a \div 256) % 16][(b \div 256) % 16]
    + 4096 * XorNibble[(a \div 4096) % 16][(b \div 4096) % 16]

----------------------------------------------------------------------------
(* Arduino core helpers used by the calibration code                       *)

\* fault: the value is passed through unclamped
constrain_unclamped(amt, low, high) == amt

\* constrain(amt, low, high): ((amt)<(low)?(low):((amt)>(high)?(high):(amt)))
constrain(amt, low, high) ==
    IF amt < low THEN low ELSE IF amt > high THEN high ELSE amt

\* long map(long x, long in_min, long in_max, long out_min, long out_max):
\*   run = in_max - in_min; if (run == 0) return -1;
\*   rise = out_max - out_min; delta = x - in_min;
\*   return (delta * rise) / run + out_min;
map(x, in_min, in_max, out_min, out_max) ==
    LET run   == Sub32(in_max, in_min)
        rise  == Sub32(out_max, out_min)
        delta == Sub32(x, in_min)
    IN  IF run = 0 THEN -1
        ELSE Add32(Div32(Mul32(delta, rise), run), out_min)

----------------------------------------------------------------------------
(* CalibrationData and its image in the EEPROM                            *)

\* The object representation of a CalibrationData: the five declared fields
\* and the two padding holes (pad0 after magic, pad1 after checksum), which
\* EEPROM.put and EEPROM.get copy along with the fields.
CalibrationData(magic, pad0, min_value, max_value, center_value, checksum, pad1) ==
    [magic |-> magic, pad0 |-> pad0, min_value |-> min_value,
     max_value |-> max_value, center_value |-> center_value,
     checksum |-> checksum, pad1 |-> pad1]

U16Byte(v, i) == (v \div (IF i = 0 THEN 1 ELSE 256)) % 256

I32Byte(v, i) ==
    (v \div (CASE i = 0 -> 1 [] i = 1 -> 256 [] i = 2 -> 65536 [] i = 3 -> 16777216)) % 256

\* byte k (little endian) of the object representation of d
RecordByte(d, k) ==
    CASE k < OFF_PAD0     -> U16Byte(d.magic, k - OFF_MAGIC)
      [] k < OFF_MIN      -> U16Byte(d.pad0, k - OFF_PAD0)
      [] k < OFF_MAX      -> I32Byte(d.min_value, k - OFF_MIN)
      [] k < OFF_CENTER   -> I32Byte(d.max_value, k - OFF_MAX)
      [] k < OFF_CHECKSUM -> I32Byte(d.center_value, k - OFF_CENTER)
      [] k < OFF_PAD1     -> U16Byte(d.checksum, k - OFF_CHECKSUM)
      [] OTHER            -> U16Byte(d.pad1, k - OFF_PAD1)

U16At(mem, a) == mem[a] + 256 * mem[a + 1]
I32At(mem, a) == FromHalves(U16At(mem, a + 2), U16At(mem, a))

\* The bytes of the EEPROM any channel can reach: the last record ends at
\* EEPROM_STEERING_ADDR + sizeof(CalibrationData), well inside EEPROM_SIZE.
StorageBytes == 0 .. (EEPROM_STEERING_ADDR + SIZEOF_CalibrationData - 1)

\* fault: the copy stops before the checksum
EEPROM_put_truncated(mem, address, d) ==
    [i \in DOMAIN mem |->
        IF i >= address /\ i < address + OFF_CHECKSUM
        THEN RecordByte(d, i - address)
        ELSE mem[i]]

\* EEPROM.put(address, data) followed by EEPROM.commit(): sizeof(data) bytes
\* of the object are copied to the region starting at address.
EEPROM_put(mem, address, d) ==
    [i \in DOMAIN mem |->
        IF i >= address /\ i < address + SIZEOF_CalibrationData
        THEN RecordByte(d, i - address)
        ELSE mem[i]]

\* EEPROM.get(address, data): sizeof(data) bytes are copied into the object.
EEPROM_get(mem, address) ==
    CalibrationData(U16At(mem, address + OFF_MAGIC),
                    U16At(mem, address + OFF_PAD0),
                    I32At(mem, address + OFF_MIN),
                    I32At(mem, address + OFF_MAX),
                    I32At(mem, address + OFF_CENTER),
                    U16At(mem, address + OFF_CHECKSUM),
                    U16At(mem, address + OFF_PAD1))

----------------------------------------------------------------------------
(* EncoderCalibration: pure parts                                          *)

\* fault: the upper half of center is left out of the checksum
calculate_checksum_partial(data) ==
    LET c0 == data.magic
        c1 == Xor16(c0, Lo16(data.min_value))
        c2 == Xor16(c1, Hi16(data.min_value))
        c3 == Xor16(c2, Lo16(data.max_value))
        c4 == Xor16(c3, Hi16(data.max_value))
        c5 == Xor16(c4, Lo16(data.center_value))
    IN  c5

calculate_checksum(data) ==
    LET c0 == data.magic
        c1 == Xor16(c0, Lo16(data.min_value))
        c2 == Xor16(c1, Hi16(data.min_value))
        c3 == Xor16(c2, Lo16(data.max_value))
        c4 == Xor16(c3, Hi16(data.max_value))
        c5 == Xor16(c4, Lo16(data.center_value))
        c6 == Xor16(c5, Hi16(data.center_value))
    IN  c6

verify_checksum(data) == calculate_checksum(data) = data.checksum

is_valid(data) == data.magic = EEPROM_MAGIC_NUMBER

\* fault: the range check is missing
load_calibration_no_range(mem, address) ==
    LET d == EEPROM_get(mem, address)
    IN  [data |-> d,
         ok   |-> d.magic = EEPROM_MAGIC_NUMBER /\ verify_checksum(d)]

\* load_calibration(): the record read from the EEPROM goes straight into
\* cal_data; the result tells whether it passed the three checks.
load_calibration(mem, address) ==
    LET d == EEPROM_get(mem, address)
    IN  [data |-> d,
         ok   |-> /\ d.magic = EEPROM_MAGIC_NUMBER
                  /\ verify_checksum(d)
                  /\ ~(d.min_value >= d.max_value)]

\* the five field assignments shared by save_calibration and reset_to_defaults
FillRecord(d, min_val, max_val, center_val) ==
    LET f == [d EXCEPT !.magic = EEPROM_MAGIC_NUMBER,
                       !.min_value = min_val,
                       !.max_value = max_val,
                       !.center_value = center_val]
    IN  [f EXCEPT !.checksum = calculate_checksum(f)]

\* fault: the defaults stay in memory only
reset_to_defaults_unsaved(d, mem, address, default_min, default_max, default_center) ==
    [data |-> FillRecord(d, default_min, default_max, default_center), eeprom |-> mem]

reset_to_defaults(d, mem, address, default_min, default_max, default_center) ==
    LET n == FillRecord(d, default_min, default_max, default_center)
    IN  [data |-> n, eeprom |-> EEPROM_put(mem, address, n)]

\* fault: the session is ended before the arguments are validated
save_calibration_ends_session(d, mem, address, calibrating, min_val, max_val, center_val) ==
    IF min_val >= max_val
    THEN [ok |-> FALSE, data |-> d, eeprom |-> mem, is_calibrating |-> FALSE]
    ELSE LET n == FillRecord(d, min_val, max_val, center_val)
         IN  [ok |-> TRUE, data |-> n, eeprom |-> EEPROM_put(mem, address, n),
              is_calibrating |-> FALSE]

\* fault: the record is written before the arguments are validated
save_calibration_writes_rejected(d, mem, address, calibrating, min_val, max_val, center_val) ==
    LET n == FillRecord(d, min_val, max_val, center_val)
    IN  IF min_val >= max_val
        THEN [ok |-> FALSE, data |-> d, eeprom |-> EEPROM_put(mem, address, n),
              is_calibrating |-> calibrating]
        ELSE [ok |-> TRUE, data |-> n, eeprom |-> EEPROM_put(mem, address, n),
              is_calibrating |-> FALSE]

save_calibration(d, mem, address, calibrating, min_val, max_val, center_val) ==
    IF min_val >= max_val
    THEN [ok |-> FALSE, data |-> d, eeprom |-> mem, is_calibrating |-> calibrating]
    ELSE LET n == FillRecord(d, min_val, max_val, center_val)
         IN  [ok |-> TRUE, data |-> n, eeprom |-> EEPROM_put(mem, address, n),
              is_calibrating |-> FALSE]

\* begin(): load, and on failure write the polarity defaults
begin(mem, address, bipolar) ==
    LET l == load_calibration(mem, address)
    IN  IF ~l.ok
        THEN LET r == IF bipolar
                      THEN reset_to_defaults(l.data, mem, address, 0, 600, 300)
                      ELSE reset_to_defaults(l.data, mem, address, 0, 600, 0)
             IN  [loaded |-> FALSE, data |-> r.data, eeprom |-> r.eeprom]
        ELSE [loaded |-> TRUE, data |-> l.data, eeprom |-> mem]

\* fault: the record is used without looking at its magic number
map_to_percent_unchecked(d, bipolar, raw_value) ==
    LET constrained == constrain(raw_value, d.min_value, d.max_value)
        center == d.center_value
    IN  IF bipolar
        THEN IF constrained < center
             THEN IF Sub32(center, d.min_value) = 0 THEN 0
                  ELSE map(constrained, d.min_value, center, -100, 0)
             ELSE IF Sub32(d.max_value, center) = 0 THEN 0
                  ELSE map(constrained, center, d.max_value, 0, 100)
        ELSE map(constrained, d.min_value, d.max_value, 0, 100)

\* fault: the two tests for a half-range of zero width are missing
map_to_percent_no_width_test(d, bipolar, raw_value) ==
    IF ~is_valid(d) THEN 0
    ELSE LET constrained == constrain(raw_value, d.min_value, d.max_value)
             center == d.center_value
         IN  IF bipolar
             THEN IF constrained < center
                  THEN map(constrained, d.min_value, center, -100, 0)
                  ELSE map(constrained, center, d.max_value, 0, 100)
             ELSE map(constrained, d.min_value, d.max_value, 0, 100)

map_to_percent(d, bipolar, raw_value) ==
    IF ~is_valid(d) THEN 0
    ELSE LET constrained == constrain(raw_value, d.min_value, d.max_value)
             center == d.center_value
         IN  IF bipolar
             THEN IF constrained < center
                  THEN IF Sub32(center, d.min_value) = 0 THEN 0
                       ELSE map(constrained, d.min_value, center, -100, 0)
                  ELSE IF Sub32(d.max_value, center) = 0 THEN 0
                       ELSE map(constrained, center, d.max_value, 0, 100)
             ELSE map(constrained, d.min_value, d.max_value, 0, 100)

\* the arguments of the map() call map_to_percent makes on a record that
\* has the magic number, <<x, in_min, in_max, out_min, out_max>>, or None
\* when it returns 0 without interpolating
map_arguments(d, bipolar, raw_value) ==
    LET constrained == constrain(raw_value, d.min_value, d.max_value)
        center == d.center_value
    IN  IF bipolar
        THEN IF constrained < center
             THEN IF Sub32(center, d.min_value) = 0 THEN <<"none">>
                  ELSE <<constrained, d.min_value, center, -100, 0>>
             ELSE IF Sub32(d.max_value, center) = 0 THEN <<"none">>
                  ELSE <<constrained, center, d.max_value, 0, 100>>
        ELSE <<constrained, d.min_value, d.max_value, 0, 100>>

\* fault: the two comparisons are chained with else
update_calibration_else(calibrating, raw_min, raw_max, raw_value) ==
    IF ~calibrating THEN [min |-> raw_min, max |-> raw_max]
    ELSE IF raw_value < raw_min
         THEN [min |-> raw_value, max |-> raw_max]
         ELSE [min |-> raw_min,
               max |-> IF raw_value > raw_max THEN raw_value ELSE raw_max]

\* update_calibration(raw_value): the running extremes of the session
update_calibration(calibrating, raw_min, raw_max, raw_value) ==
    IF ~calibrating THEN [min |-> raw_min, max |-> raw_max]
    ELSE [min |-> IF raw_value < raw_min THEN raw_value ELSE raw_min,
          max |-> IF raw_value > raw_max THEN raw_value ELSE raw_max]

\* the range update() clamps current_value into
NominalLow(ch) == IF ch = "steering" THEN -100 ELSE 0
NominalHigh(ch) == 100

----------------------------------------------------------------------------
(* Bounds and input sets                                                   *)

\* encoder positions explored: -MaxPos .. MaxPos
MaxPos == 1

\* arguments offered to EncoderCalibration::save_calibration
CalVals == {-1, 0, 600}

\* arguments offered to the managers' save_calibration when all three run
StoreVals == {0, 300}
StoreCenters == {150}

\* arguments offered to the save_calibration of a manager running alone:
\* the two ends, and the center
ChanEnds == {-1, 1}
ChanVals == {0, 1}

\* arguments offered to save_calibration before a storage fault
FaultVals == {-1, 600}

\* what the padding holes of a freshly constructed object may hold
PadVals == {0, 65535}

\* raw values offered to update_calibration when it is called directly
SampleVals == {-5, 700}

----------------------------------------------------------------------------
(* State                                                                   *)

VARIABLES
    eeprom,             \* the shared EEPROM, a byte per address
    cal_data,           \* EncoderCalibration::cal_data of each channel
    is_calibrating,     \* EncoderCalibration::is_calibrating
    cal_raw_min,        \* EncoderCalibration::cal_raw_min
    cal_raw_max,        \* EncoderCalibration::cal_raw_max
    encoder_position,   \* <Channel>Manager::encoder_position
    last_clk,           \* <Channel>Manager::last_clk
    current_value,      \* <Channel>Manager::current_value
    attached,           \* begin() has attached encoder_isr of the channel
    updating,           \* the channel whose update() is between its two reads
    sampled,            \* the position that update() passed to update_calibration
    focus,              \* the channel(s) exercised: one of them, or "all"
    probe,              \* the last direct call of map_to_percent and its result
    last,               \* history: the last operation of the main cycle
    committed,          \* history: arguments of the last accepted save
    now,                \* what millis() returns
    gear_pin,           \* the level at the pin of each gear button
    last_gear_state,    \* GearManager::last_gear_up_state, last_gear_down_state
    last_gear_time,     \* GearManager::last_gear_up_time, last_gear_down_time
    gear_pressed,       \* GearManager::gear_up_pressed, gear_down_pressed
    gear_begun,         \* GearManager::begin() has run
    gear_held,          \* history: how long the polls have seen the press last
    gear_reports,       \* history: updates that reported the press, -1 if none is followed
    gear_last,          \* history: the last operation of GearManager
    current_intensity,  \* FFMotorManager::current_intensity
    current_direction,  \* FFMotorManager::current_direction
    initialized,        \* FFMotorManager::initialized
    startup_check_done,     \* FFMotorManager::startup_check_done
    startup_check_running,  \* FFMotorManager::startup_check_running
    startup_phase,      \* FFMotorManager::startup_phase
    phase_start_time,   \* FFMotorManager::phase_start_time
    pwm_duty,           \* the duty of each LEDC channel
    bridge_enabled,     \* the level of PIN_R_EN and PIN_L_EN
    motor_last,         \* history: the last operation of FFMotorManager
    last_sent,          \* SerialSenderManager::last_throttle, last_brake, last_steering
    serial_up,          \* what (bool)Serial gives
    wire,               \* history: the last message of each kind put on the line
    sender_called,      \* history: the kinds a send_ function was called for
    sender_last         \* history: the last operation of SerialSenderManager

calVars == <<cal_data, is_calibrating, cal_raw_min, cal_raw_max>>
mgrVars == <<encoder_position, last_clk, current_value, attached, updating, sampled>>
vars == <<eeprom, cal_data, is_calibrating, cal_raw_min, cal_raw_max,
          encoder_position, last_clk, current_value, attached, updating,
          sampled, focus, probe, last, committed,
          now, gear_pin, last_gear_state, last_gear_time, gear_pressed,
          gear_begun, gear_held, gear_reports, gear_last,
          current_intensity, current_direction, initialized,
          startup_check_done, startup_check_running, startup_phase,
          phase_start_time, pwm_duty, bridge_enabled, motor_last,
          last_sent, serial_up, wire, sender_called, sender_last>>

channelVars == <<eeprom, calVars, mgrVars, focus, probe, last, committed>>
gearVars == <<gear_pin, last_gear_state, last_gear_time, gear_pressed,
              gear_begun, gear_held, gear_reports, gear_last>>
motorVars == <<current_intensity, current_direction, initialized,
               startup_check_done, startup_check_running, startup_phase,
               phase_start_time, pwm_duty, bridge_enabled, motor_last>>
senderVars == <<last_sent, serial_up, wire, sender_called, sender_last>>
auxVars == <<now, gearVars, motorVars, senderVars>>

\* the two gear buttons
Buttons == {"up", "down"}

None == <<"none">>

\* what the history keeps of the operation before the last one
PrevTag(op) ==
    IF op \in {"save_ok", "flip"} THEN op ELSE "other"

Note(op, ch) == [op |-> op, ch |-> ch, prev |-> PrevTag(last.op)]

\* EncoderCalibration::EncoderCalibration: the fields get their initial
\* values, the padding holes keep whatever the memory held.
Constructed(pad) == CalibrationData(0, pad, 0, 600, 300, 0, pad)

Blank(fill) == [i \in StorageBytes |-> fill]

\* records found in the EEPROM at first power-on: a good one, a good one
\* narrower than the travel of the encoder, one whose range is inverted or
\* empty under a matching checksum, one whose checksum does not match
\* (on an erased EEPROM every byte reads 255)
GoodRec == FillRecord(Constructed(0), 0, 300, 300)

NarrowRec == FillRecord(Constructed(0), 0, 1, 0)

InitRecs ==
    {GoodRec, NarrowRec,
     FillRecord(Constructed(0), 600, 0, 0),
     FillRecord(Constructed(0), 600, 600, 0),
     [FillRecord(Constructed(0), 0, 300, 0) EXCEPT !.checksum = 0]}

\* what the EEPROM holds at first power-on when all three channels run:
\* nothing, or a record one of the channels left
InitImages ==
    {Blank(255)} \cup
    {EEPROM_put(Blank(255), eeprom_address(ch), GoodRec) : ch \in Channels}

\* the state the constructors of the three managers leave
InitCommon ==
    /\ \E pad \in PadVals : cal_data = [ch \in Channels |-> Constructed(pad)]
    /\ is_calibrating = [ch \in Channels |-> FALSE]
    /\ cal_raw_min = [ch \in Channels |-> 0]
    /\ cal_raw_max = [ch \in Channels |-> 0]
    /\ encoder_position = [ch \in Channels |-> 0]
    /\ last_clk = [ch \in Channels |-> HIGH]
    /\ current_value = [ch \in Channels |-> 0]
    /\ attached = [ch \in Channels |-> FALSE]
    /\ updating = "none"
    /\ sampled = 0
    /\ last = [op |-> "init", ch |-> "none", prev |-> "other"]
    /\ probe = [ch |-> "none", raw |-> 0, out |-> 0]
    /\ committed = [ch \in Channels |-> None]
    /\ now = 0
    /\ gear_pin = [b \in Buttons |-> HIGH]
    /\ last_gear_state = [b \in Buttons |-> HIGH]
    /\ last_gear_time = [b \in Buttons |-> 0]
    /\ gear_pressed = [b \in Buttons |-> FALSE]
    /\ gear_begun = FALSE
    /\ gear_held = [b \in Buttons |-> 0]
    /\ gear_reports = [b \in Buttons |-> -1]
    /\ gear_last = [op |-> "init", b |-> "none", out |-> FALSE]
    /\ current_intensity = 0
    /\ current_direction = "NEUTRAL"
    /\ initialized = FALSE
    /\ startup_check_done = FALSE
    /\ startup_check_running = FALSE
    /\ startup_phase = 0
    /\ phase_start_time = 0
    /\ pwm_duty = [R |-> 0, L |-> 0]
    /\ bridge_enabled = FALSE
    /\ motor_last = [op |-> "init", dir |-> "none", val |-> 0, ret |-> FALSE]
    /\ last_sent = [throttle |-> -1, brake |-> -1, steering |-> 0]
    /\ serial_up = TRUE
    /\ wire = [k \in Channels |-> [any |-> FALSE, val |-> 0]]
    /\ sender_called = [k \in Channels |-> FALSE]
    /\ sender_last = [op |-> "init", kind |-> "none", val |-> 0, emitted |-> FALSE]

\* all three channels run
Init ==
    /\ InitCommon
    /\ focus = "all"
    /\ eeprom \in InitImages

\* one channel runs, the other two objects stay as constructed
InitFocus ==
    /\ InitCommon
    /\ focus \in Channels
    /\ eeprom \in {Blank(255)} \cup
                  {EEPROM_put(Blank(255), eeprom_address(focus), r) : r \in InitRecs}

----------------------------------------------------------------------------
(* Operations of EncoderCalibration, called on the object of channel ch    *)

CalBegin(ch) ==
    \E r \in {begin(eeprom, eeprom_address(ch), is_bipolar(ch))} :
        /\ cal_data' = [cal_data EXCEPT ![ch] = r.data]
        /\ eeprom' = r.eeprom
        /\ last' = Note(IF r.loaded THEN "begin_loaded" ELSE "begin_defaults", ch)
        /\ UNCHANGED <<is_calibrating, cal_raw_min, cal_raw_max, mgrVars,
                       focus, auxVars, probe, committed>>

CalStart(ch) ==
    /\ is_calibrating' = [is_calibrating EXCEPT ![ch] = TRUE]
    /\ cal_raw_min' = [cal_raw_min EXCEPT ![ch] = INT32_MAX]
    /\ cal_raw_max' = [cal_raw_max EXCEPT ![ch] = INT32_MIN]
    /\ last' = Note("start", ch)
    /\ UNCHANGED <<eeprom, cal_data, mgrVars, focus, auxVars, probe, committed>>

CalUpdate(ch, raw_value) ==
    \E u \in {update_calibration(is_calibrating[ch], cal_raw_min[ch],
                                 cal_raw_max[ch], raw_value)} :
        /\ cal_raw_min' = [cal_raw_min EXCEPT ![ch] = u.min]
        /\ cal_raw_max' = [cal_raw_max EXCEPT ![ch] = u.max]
        /\ last' = Note("sample", ch)
        /\ UNCHANGED <<eeprom, cal_data, is_calibrating, mgrVars,
                       focus, auxVars, probe, committed>>

CalSave(ch, min_val, max_val, center_val) ==
    \E r \in {save_calibration(cal_data[ch], eeprom, eeprom_address(ch),
                              is_calibrating[ch], min_val, max_val, center_val)} :
        /\ cal_data' = [cal_data EXCEPT ![ch] = r.data]
        /\ eeprom' = r.eeprom
        /\ is_calibrating' = [is_calibrating EXCEPT ![ch] = r.is_calibrating]
        /\ last' = Note(IF r.ok THEN "save_ok" ELSE "save_rejected", ch)
        /\ committed' = IF r.ok
                        THEN [committed EXCEPT ![ch] = <<min_val, max_val, center_val>>]
                        ELSE committed
        /\ UNCHANGED <<cal_raw_min, cal_raw_max, mgrVars, focus, auxVars, probe>>

CalLoad(ch) ==
    \E l \in {load_calibration(eeprom, eeprom_address(ch))} :
        /\ cal_data' = [cal_data EXCEPT ![ch] = l.data]
        /\ last' = Note(IF l.ok THEN "load_ok" ELSE "load_failed", ch)
        /\ UNCHANGED <<eeprom, is_calibrating, cal_raw_min, cal_raw_max,
                       mgrVars, focus, auxVars, probe, committed>>

----------------------------------------------------------------------------
(* Storage fault: one bit of a stored field flips                          *)

Pow2(n) == CASE n = 0 -> 1 [] n = 1 -> 2 [] n = 2 -> 4 [] n = 3 -> 8
             [] n = 4 -> 16 [] n = 5 -> 32 [] n = 6 -> 64 [] n = 7 -> 128

FlipBitOf(byte, bit) ==
    IF (byte \div Pow2(bit)) % 2 = 1 THEN byte - Pow2(bit) ELSE byte + Pow2(bit)

\* offsets of the bytes that belong to magic, min, max, center and checksum
FieldBytes == (0 .. (SIZEOF_CalibrationData - 1)) \
              {OFF_PAD0, OFF_PAD0 + 1, OFF_PAD1, OFF_PAD1 + 1}

\* strikes the record that the save just before wrote
FlipBit(ch, k, bit) ==
    /\ last.op = "save_ok" /\ last.ch = ch
    /\ eeprom' = [eeprom EXCEPT ![eeprom_address(ch) + k] = FlipBitOf(@, bit)]
    /\ last' = Note("flip", ch)
    /\ UNCHANGED <<calVars, mgrVars, focus, auxVars, probe, committed>>

----------------------------------------------------------------------------
(* Operations of the channel managers (ThrottleManager, BrakeManager,      *)
(* SteeringManager), which differ in EEPROM address, polarity and the      *)
(* arguments of save_calibration only                                      *)

\* <Channel>Manager::begin(), which setup() calls once after power-on. It
\* zeroes encoder_position and current_value after attachInterrupt: an edge
\* handled in between is overwritten, except for last_clk, which is left at
\* either level here.
Begin(ch) ==
    /\ updating = "none"
    /\ ~attached[ch]
    /\ \E r \in {begin(eeprom, eeprom_address(ch), is_bipolar(ch))} :
           /\ cal_data' = [cal_data EXCEPT ![ch] = r.data]
           /\ eeprom' = r.eeprom
           /\ last' = Note(IF r.loaded THEN "begin_loaded" ELSE "begin_defaults", ch)
    /\ \E clk \in {LOW, HIGH} : last_clk' = [last_clk EXCEPT ![ch] = clk]
    /\ attached' = [attached EXCEPT ![ch] = TRUE]
    /\ encoder_position' = [encoder_position EXCEPT ![ch] = 0]
    /\ current_value' = [current_value EXCEPT ![ch] = 0]
    /\ UNCHANGED <<is_calibrating, cal_raw_min, cal_raw_max, updating, sampled,
                   focus, auxVars, probe, committed>>

\* fault: outside a calibration session the count is held inside the
\* calibrated range
Isr_clamped(ch, clk_value, dt_value) ==
    /\ attached[ch]
    /\ IF clk_value # last_clk[ch]
       THEN /\ encoder_position' =
                   [encoder_position EXCEPT ![ch] =
                        IF is_calibrating[ch]
                        THEN IF dt_value # clk_value THEN Add32(@, 1) ELSE Sub32(@, 1)
                        ELSE constrain(IF dt_value # clk_value
                                       THEN Add32(@, 1) ELSE Sub32(@, 1),
                                       cal_data[ch].min_value, cal_data[ch].max_value)]
            /\ encoder_position'[ch] \in -MaxPos .. MaxPos
            /\ last_clk' = [last_clk EXCEPT ![ch] = clk_value]
       ELSE UNCHANGED <<encoder_position, last_clk>>
    /\ UNCHANGED <<eeprom, calVars, current_value, attached, updating, sampled,
                   focus, auxVars, probe, last, committed>>

\* fault: every call counts, whether the CLK level is new or not
Isr_every_call(ch, clk_value, dt_value) ==
    /\ attached[ch]
    /\ encoder_position' =
           [encoder_position EXCEPT ![ch] =
                IF dt_value # clk_value THEN Add32(@, 1) ELSE Sub32(@, 1)]
    /\ encoder_position'[ch] \in -MaxPos .. MaxPos
    /\ last_clk' = [last_clk EXCEPT ![ch] = clk_value]
    /\ UNCHANGED <<eeprom, calVars, current_value, attached, updating, sampled,
                   focus, auxVars, probe, last, committed>>

\* <Channel>Manager::encoder_isr(), entered with the two pin levels it reads
Isr(ch, clk_value, dt_value) ==
    /\ attached[ch]
    /\ IF clk_value # last_clk[ch]
       THEN /\ encoder_position' =
                   [encoder_position EXCEPT ![ch] =
                        IF dt_value # clk_value THEN Add32(@, 1) ELSE Sub32(@, 1)]
            /\ encoder_position'[ch] \in -MaxPos .. MaxPos
            /\ last_clk' = [last_clk EXCEPT ![ch] = clk_value]
       ELSE UNCHANGED <<encoder_position, last_clk>>
    /\ UNCHANGED <<eeprom, calVars, current_value, attached, updating, sampled,
                   focus, auxVars, probe, last, committed>>

\* <Channel>Manager::update(), up to the call of update_calibration, which
\* it makes during a session only: the first read of encoder_position
UpdateSample(ch) ==
    /\ updating = "none"
    /\ \E u \in {update_calibration(is_calibrating[ch], cal_raw_min[ch],
                                    cal_raw_max[ch], encoder_position[ch])} :
           /\ cal_raw_min' = [cal_raw_min EXCEPT ![ch] = u.min]
           /\ cal_raw_max' = [cal_raw_max EXCEPT ![ch] = u.max]
    /\ updating' = ch
    /\ sampled' = IF is_calibrating[ch] THEN encoder_position[ch] ELSE sampled
    /\ UNCHANGED <<eeprom, cal_data, is_calibrating, encoder_position, last_clk,
                   current_value, attached, focus, auxVars, probe, last, committed>>

\* <Channel>Manager::update(), the rest: the second read of
\* encoder_position, the mapping and the clamp
UpdateMap(ch) ==
    /\ updating = ch
    /\ current_value' =
           [current_value EXCEPT ![ch] =
                constrain(map_to_percent(cal_data[ch], is_bipolar(ch), encoder_position[ch]),
                          NominalLow(ch), NominalHigh(ch))]
    /\ updating' = "none"
    /\ sampled' = 0
    /\ last' = Note("update", ch)
    /\ UNCHANGED <<eeprom, calVars, encoder_position, last_clk, attached,
                   focus, auxVars, probe, committed>>

\* fault: reset() also abandons a calibration session
Reset_ends_session(ch) ==
    /\ updating = "none"
    /\ encoder_position' = [encoder_position EXCEPT ![ch] = 0]
    /\ current_value' = [current_value EXCEPT ![ch] = 0]
    /\ is_calibrating' = [is_calibrating EXCEPT ![ch] = FALSE]
    /\ last' = Note("reset", ch)
    /\ UNCHANGED <<eeprom, cal_data, cal_raw_min, cal_raw_max, last_clk, attached,
                   updating, sampled, focus, auxVars, probe, committed>>

\* <Channel>Manager::reset()
Reset(ch) ==
    /\ updating = "none"
    /\ encoder_position' = [encoder_position EXCEPT ![ch] = 0]
    /\ current_value' = [current_value EXCEPT ![ch] = 0]
    /\ last' = Note("reset", ch)
    /\ UNCHANGED <<eeprom, calVars, last_clk, attached, updating, sampled,
                   focus, auxVars, probe, committed>>

\* <Channel>Manager::start_calibration(); commands reach a manager from the
\* main loop, which runs after setup() has called begin()
StartCalibration(ch) ==
    /\ updating = "none"
    /\ attached[ch]
    /\ CalStart(ch)

\* ThrottleManager / BrakeManager::save_calibration(min_val, max_val) pass
\* center 0; SteeringManager::save_calibration(left, center, right) passes
\* (left as min, right as max, center as center)
SaveCalibration(ch, min_val, max_val, center_val) ==
    /\ updating = "none"
    /\ attached[ch]
    /\ CalSave(ch, min_val, max_val, IF ch = "steering" THEN center_val ELSE 0)

\* power is removed and restored: the EEPROM keeps its contents, the three
\* managers are constructed again
PowerCycle ==
    /\ \E pad \in PadVals : cal_data' = [ch \in Channels |-> Constructed(pad)]
    /\ is_calibrating' = [ch \in Channels |-> FALSE]
    /\ cal_raw_min' = [ch \in Channels |-> 0]
    /\ cal_raw_max' = [ch \in Channels |-> 0]
    /\ encoder_position' = [ch \in Channels |-> 0]
    /\ last_clk' = [ch \in Channels |-> HIGH]
    /\ current_value' = [ch \in Channels |-> 0]
    /\ attached' = [ch \in Channels |-> FALSE]
    /\ updating' = "none"
    /\ sampled' = 0
    /\ last' = Note("power", "none")
    /\ UNCHANGED <<eeprom, focus, auxVars, probe, committed>>

\* EncoderCalibration::map_to_percent(raw_value) called on the object
MapToPercent(ch, raw_value) ==
    /\ probe' = [ch |-> ch, raw |-> raw_value,
                 out |-> map_to_percent(cal_data[ch], is_bipolar(ch), raw_value)]
    /\ UNCHANGED <<eeprom, calVars, mgrVars, focus, auxVars, last, committed>>

----------------------------------------------------------------------------
(* Specifications                                                          *)

Running(ch) == focus = "all" \/ focus = ch

\* the three managers side by side: start-up, saves and power cycles
Next ==
    \/ \E ch \in Channels : Running(ch) /\ Begin(ch)
    \/ \E ch \in Channels, a, b \in StoreVals, c \in StoreCenters :
           Running(ch) /\ SaveCalibration(ch, a, b, c)
    \/ PowerCycle

Spec == Init /\ [][Next]_vars

\* one EncoderCalibration object driven through its public operations
NextCal ==
    \/ \E ch \in Channels : Running(ch) /\ CalBegin(ch)
    \/ \E ch \in Channels : Running(ch) /\ CalStart(ch)
    \/ \E ch \in Channels, r \in SampleVals : Running(ch) /\ CalUpdate(ch, r)
    \/ \E ch \in Channels, a, b, c \in CalVals : Running(ch) /\ CalSave(ch, a, b, c)
    \/ \E ch \in Channels : Running(ch) /\ CalLoad(ch)

SpecCal == InitFocus /\ [][NextCal]_vars

\* saves, loads and start-ups with single-bit faults of the stored record
NextFault ==
    \/ \E ch \in Channels : Running(ch) /\ CalBegin(ch)
    \/ \E ch \in Channels, a, b, c \in FaultVals : Running(ch) /\ CalSave(ch, a, b, c)
    \/ \E ch \in Channels : Running(ch) /\ CalLoad(ch)
    \/ \E ch \in Channels, k \in FieldBytes, bit \in 0 .. 7 :
           Running(ch) /\ FlipBit(ch, k, bit)

SpecFault == InitFocus /\ [][NextFault]_vars

\* the mapping applied to the records a start-up or a load brings into
\* memory; the raw positions offered sit at and around the record's marks
MapRecs ==
    {FillRecord(Constructed(0), t[1], t[2], t[3]) :
        t \in {<<0, 600, 0>>, <<0, 600, 300>>, <<-300, 300, 0>>, <<-1, 2, 0>>,
               <<5, 8, 5>>, <<5, 8, 8>>, <<0, 600, 900>>, <<0, 600, -5>>,
               <<0, 30000000, 0>>, <<0, 30000000, 15000000>>}}

RawsAround(d) ==
    {d.min_value, d.max_value, d.center_value,
     Sub32(d.min_value, 1), Add32(d.min_value, 1),
     Sub32(d.max_value, 1), Add32(d.max_value, 1),
     Add32(d.min_value, Div32(Sub32(d.max_value, d.min_value), 4)),
     Add32(d.min_value, Div32(Sub32(d.max_value, d.min_value), 2)),
     0, INT32_MIN, INT32_MAX}

InitMap ==
    /\ InitCommon
    /\ focus \in Channels
    /\ eeprom \in {Blank(255)} \cup
                  {EEPROM_put(Blank(255), eeprom_address(focus), r) : r \in MapRecs}

NextMap ==
    \/ \E ch \in Channels : Running(ch) /\ CalBegin(ch)
    \/ \E ch \in Channels : Running(ch) /\ CalLoad(ch)
    \/ \E ch \in Channels : \E raw \in RawsAround(cal_data[ch]) :
           Running(ch) /\ MapToPercent(ch, raw)

SpecMap == InitMap /\ [][NextMap]_vars

\* one channel manager with its encoder interrupt
NextChannel ==
    \/ \E ch \in Channels : Running(ch) /\ Begin(ch)
    \/ \E ch \in Channels, clk, dt \in {LOW, HIGH} : Running(ch) /\ Isr(ch, clk, dt)
    \/ \E ch \in Channels : Running(ch) /\ UpdateSample(ch)
    \/ \E ch \in Channels : Running(ch) /\ UpdateMap(ch)
    \/ \E ch \in Channels : Running(ch) /\ Reset(ch)
    \/ \E ch \in Channels : Running(ch) /\ StartCalibration(ch)
    \/ \E ch \in Channels, a, b \in ChanEnds, c \in ChanVals :
           Running(ch) /\ SaveCalibration(ch, a, b, c)
    \/ PowerCycle

SpecChannel == InitFocus /\ [][NextChannel]_vars

\* ---------------------------------------------------------------------------
\* GearManager (gear_manager.cpp): two push buttons, active LOW, polled.
\* ---------------------------------------------------------------------------

\* gear_manager.h: static const unsigned long DEBOUNCE_DELAY = 50
DEBOUNCE_DELAY == 50

\* the clock of the gear specifications stops here
GearMaxTime == 150

\* milliseconds between one call of update() and the step before it
GearSteps == {25, 75}

\* read_button with no debounce window: any change is accepted at once
read_button_no_window(reading, last_state, last_time, current_time) ==
    IF reading # last_state
    THEN [pressed |-> reading = LOW /\ last_state = HIGH,
          last_state |-> reading,
          last_time |-> current_time]
    ELSE [pressed |-> FALSE, last_state |-> last_state, last_time |-> last_time]

\* GearManager::read_button(pin, last_state, last_time), with the level read
\* at the pin and the value of millis() as arguments; the two reference
\* parameters come back as fields of the result
read_button(reading, last_state, last_time, current_time) ==
    IF reading # last_state
    THEN IF current_time - last_time > DEBOUNCE_DELAY
         THEN [pressed |-> reading = LOW /\ last_state = HIGH,
               last_state |-> reading,
               last_time |-> current_time]
         ELSE [pressed |-> FALSE,
               last_state |-> last_state,
               last_time |-> current_time]
    ELSE [pressed |-> FALSE, last_state |-> last_state, last_time |-> last_time]

\* GearManager::begin(): the recorded states become the levels read at the
\* pins; the times keep the constructor's 0.  gear_up_state and
\* gear_down_state are written here and read nowhere, so they are no variable.
GearBegin ==
    /\ ~gear_begun
    /\ gear_begun' = TRUE
    /\ last_gear_state' = gear_pin
    /\ gear_last' = [op |-> "begin", b |-> "none", out |-> FALSE]
    /\ UNCHANGED <<channelVars, senderVars, motorVars, now, gear_pin, last_gear_time, gear_pressed,
                   gear_held, gear_reports>>

\* the driver presses or releases button b; a press made once begin() has run
\* is followed by gear_held and gear_reports
GearPin(b) ==
    /\ gear_pin' = [gear_pin EXCEPT ![b] = IF @ = HIGH THEN LOW ELSE HIGH]
    /\ gear_held' = [gear_held EXCEPT ![b] = 0]
    /\ gear_reports' = [gear_reports EXCEPT
                           ![b] = IF gear_pin[b] = HIGH /\ gear_begun THEN 0 ELSE -1]
    /\ UNCHANGED <<channelVars, senderVars, motorVars, now, last_gear_state, last_gear_time,
                   gear_pressed, gear_begun, gear_last>>

\* GearManager::update(), called dt milliseconds after the step before it:
\* both flags are cleared, then each button is read
GearUpdate(dt) ==
    /\ gear_begun
    /\ now + dt <= GearMaxTime
    /\ now' = now + dt
    /\ \E r \in {[b \in Buttons |->
                     read_button(gear_pin[b], last_gear_state[b],
                                 last_gear_time[b], now + dt)]} :
        /\ gear_pressed' = [b \in Buttons |-> r[b].pressed]
        /\ last_gear_state' = [b \in Buttons |-> r[b].last_state]
        /\ last_gear_time' = [b \in Buttons |-> r[b].last_time]
        /\ gear_reports' = [b \in Buttons |->
                               IF gear_reports[b] >= 0 /\ r[b].pressed
                               THEN gear_reports[b] + 1 ELSE gear_reports[b]]
    /\ gear_held' = [b \in Buttons |->
                        IF gear_reports[b] >= 0 THEN gear_held[b] + dt ELSE 0]
    /\ gear_last' = [op |-> "update", b |-> "none", out |-> FALSE]
    /\ UNCHANGED <<channelVars, senderVars, motorVars, gear_pin, gear_begun>>

\* a query that returns the flag and leaves it set
IsGearPressed_keeps_flag(b) ==
    /\ gear_last' = [op |-> "query", b |-> b, out |-> gear_pressed[b]]
    /\ UNCHANGED <<channelVars, senderVars, motorVars, now, gear_pin, last_gear_state, last_gear_time,
                   gear_pressed, gear_begun, gear_held, gear_reports>>

\* GearManager::is_gear_up_pressed() and is_gear_down_pressed()
IsGearPressed(b) ==
    /\ gear_last' = [op |-> "query", b |-> b, out |-> gear_pressed[b]]
    /\ gear_pressed' = [gear_pressed EXCEPT ![b] = FALSE]
    /\ UNCHANGED <<channelVars, senderVars, motorVars, now, gear_pin, last_gear_state, last_gear_time,
                   gear_begun, gear_held, gear_reports>>

\* GearManager::reset()
GearReset ==
    /\ gear_pressed' = [b \in Buttons |-> FALSE]
    /\ last_gear_state' = [b \in Buttons |-> HIGH]
    /\ gear_last' = [op |-> "reset", b |-> "none", out |-> FALSE]
    /\ UNCHANGED <<channelVars, senderVars, motorVars, now, gear_pin, last_gear_time, gear_begun,
                   gear_held, gear_reports>>

InitGear ==
    /\ InitCommon
    /\ focus = "all"
    /\ eeprom = Blank(255)

\* the gear manager, polled at any of the intervals of GearSteps
NextGear ==
    \/ GearBegin
    \/ \E b \in Buttons : GearPin(b)
    \/ \E dt \in GearSteps : GearUpdate(dt)
    \/ \E b \in Buttons : IsGearPressed(b)
    \/ GearReset

SpecGear == InitGear /\ [][NextGear]_vars

\* milliseconds between two polls of the main loop, below DEBOUNCE_DELAY
PollStep == DEBOUNCE_DELAY \div 2

\* the gear manager polled every PollStep milliseconds from begin() on
NextGearPoll ==
    \/ GearBegin
    \/ \E b \in Buttons : GearPin(b)
    \/ GearUpdate(PollStep)
    \/ \E b \in Buttons : IsGearPressed(b)

SpecGearPoll == InitGear /\ [][NextGearPoll]_vars

\* ---------------------------------------------------------------------------
\* FFMotorManager (ff_motor_manager.cpp): the force-feedback motor behind a
\* BTS7960 bridge, and its startup self-test.
\* ---------------------------------------------------------------------------

\* ff_motor_manager.h: static const int PHASE_DURATION_MS = 500
PHASE_DURATION_MS == 500

\* ff_motor_manager.h: static const int STARTUP_INTENSITY = 20
STARTUP_INTENSITY == 20

\* the clock of the motor specifications stops here
MotorMaxTime == 4000

\* milliseconds between one call of update_startup_check() and the step
\* before it
MotorSteps == {0, PHASE_DURATION_MS \div 2, PHASE_DURATION_MS}

\* the longest a self-test can take under MotorSteps: a phase ends at the
\* first call that finds PHASE_DURATION_MS elapsed
CheckSpan == 3 * (PHASE_DURATION_MS + PHASE_DURATION_MS \div 2)

\* arguments of set_force()
Directions == {"LEFT", "RIGHT", "NEUTRAL"}
Intensities == {-5, 40, 150}

\* the two LEDC channels, PWM_CHANNEL_R and PWM_CHANNEL_L
PwmChannels == {"R", "L"}

\* FFMotorManager::intensity_to_pwm
intensity_to_pwm(intensity) == map(intensity, 0, 100, 0, 255)

\* int pwm_value = intensity_to_pwm(STARTUP_INTENSITY), in
\* start_startup_check() and update_startup_check()
startup_pwm_value == intensity_to_pwm(STARTUP_INTENSITY)

\* the duties of a set_force() that writes the channel of the direction only
force_duties_one_write(direction, pwm_value) ==
    IF direction = "LEFT" THEN [pwm_duty EXCEPT !["L"] = pwm_value]
    ELSE IF direction = "RIGHT" THEN [pwm_duty EXCEPT !["R"] = pwm_value]
    ELSE [R |-> 0, L |-> 0]

\* the duties set_force() writes for a direction
force_duties(direction, pwm_value) ==
    IF direction = "LEFT" THEN [R |-> 0, L |-> pwm_value]
    ELSE IF direction = "RIGHT" THEN [R |-> pwm_value, L |-> 0]
    ELSE [R |-> 0, L |-> 0]

\* FFMotorManager::is_ready
is_ready == initialized /\ startup_check_done

\* FFMotorManager::is_checking
is_checking == startup_check_running

MotorNote(op, direction, val, ret) ==
    [op |-> op, dir |-> direction, val |-> val, ret |-> ret]

\* FFMotorManager::begin(): bridge disabled, both duties 0, not ready; the
\* self-test fields startup_check_running and startup_phase are not touched
MotorBegin ==
    /\ bridge_enabled' = FALSE
    /\ pwm_duty' = [c \in PwmChannels |-> 0]
    /\ initialized' = FALSE
    /\ startup_check_done' = FALSE
    /\ motor_last' = MotorNote("begin", "none", 0, FALSE)
    /\ UNCHANGED <<channelVars, senderVars, now, gearVars, current_intensity,
                   current_direction, startup_check_running, startup_phase,
                   phase_start_time>>

\* set_force with the test of startup_check_running left out
SetForce_while_checking(direction, intensity) ==
    /\ motor_last' = MotorNote("set_force", direction, intensity, FALSE)
    /\ IF ~initialized
       THEN UNCHANGED <<current_intensity, current_direction, pwm_duty>>
       ELSE /\ current_intensity' = constrain(intensity, 0, 100)
            /\ current_direction' = direction
            /\ pwm_duty' = force_duties(direction,
                               intensity_to_pwm(constrain(intensity, 0, 100)))
    /\ UNCHANGED <<channelVars, senderVars, now, gearVars, initialized, startup_check_done,
                   startup_check_running, startup_phase, phase_start_time,
                   bridge_enabled>>

\* FFMotorManager::set_force(direction, intensity)
SetForce(direction, intensity) ==
    /\ motor_last' = MotorNote("set_force", direction, intensity, FALSE)
    /\ IF ~initialized \/ startup_check_running
       THEN UNCHANGED <<current_intensity, current_direction, pwm_duty>>
       ELSE /\ current_intensity' = constrain(intensity, 0, 100)
            /\ current_direction' = direction
            /\ pwm_duty' = force_duties(direction,
                               intensity_to_pwm(constrain(intensity, 0, 100)))
    /\ UNCHANGED <<channelVars, senderVars, now, gearVars, initialized, startup_check_done,
                   startup_check_running, startup_phase, phase_start_time,
                   bridge_enabled>>

\* FFMotorManager::start_startup_check(); a self-test is started while the
\* clock of the model still covers it
MotorStart ==
    /\ now + CheckSpan <= MotorMaxTime
    /\ bridge_enabled' = TRUE
    /\ startup_check_running' = TRUE
    /\ startup_check_done' = FALSE
    /\ startup_phase' = 0
    /\ phase_start_time' = now
    /\ pwm_duty' = [R |-> 0, L |-> startup_pwm_value]
    /\ motor_last' = MotorNote("start", "none", 0, FALSE)
    /\ UNCHANGED <<channelVars, senderVars, now, gearVars, current_intensity,
                   current_direction, initialized>>

\* update_startup_check that moves to the next phase at every call
MotorUpdate_no_wait(dt) ==
    /\ now + dt <= MotorMaxTime
    /\ now' = now + dt
    /\ IF ~startup_check_running
       THEN /\ motor_last' = MotorNote("update", "none", 0, FALSE)
            /\ UNCHANGED <<startup_phase, phase_start_time, pwm_duty,
                           startup_check_running, startup_check_done, initialized>>
       ELSE /\ startup_phase' = startup_phase + 1
            /\ phase_start_time' = now'
            /\ pwm_duty' = IF startup_phase' = 1
                           THEN [R |-> startup_pwm_value, L |-> 0]
                           ELSE [R |-> 0, L |-> 0]
            /\ IF startup_phase' = 3
               THEN /\ startup_check_running' = FALSE
                    /\ startup_check_done' = TRUE
                    /\ initialized' = TRUE
                    /\ motor_last' = MotorNote("update", "none", 0, FALSE)
               ELSE /\ motor_last' = MotorNote("update", "none", 0, TRUE)
                    /\ UNCHANGED <<startup_check_running, startup_check_done,
                                   initialized>>
    /\ UNCHANGED <<channelVars, senderVars, gearVars, current_intensity, current_direction,
                   bridge_enabled>>

\* update_startup_check whose switch has no case 3
MotorUpdate_never_done(dt) ==
    /\ now + dt <= MotorMaxTime
    /\ now' = now + dt
    /\ IF ~startup_check_running
       THEN /\ motor_last' = MotorNote("update", "none", 0, FALSE)
            /\ UNCHANGED <<startup_phase, phase_start_time, pwm_duty>>
       ELSE IF now' - phase_start_time >= PHASE_DURATION_MS /\ startup_phase < 2
       THEN /\ startup_phase' = startup_phase + 1
            /\ phase_start_time' = now'
            /\ pwm_duty' = IF startup_phase' = 1
                           THEN [R |-> startup_pwm_value, L |-> 0]
                           ELSE [R |-> 0, L |-> 0]
            /\ motor_last' = MotorNote("update", "none", 0, TRUE)
       ELSE /\ motor_last' = MotorNote("update", "none", 0, TRUE)
            /\ UNCHANGED <<startup_phase, phase_start_time, pwm_duty>>
    /\ UNCHANGED <<channelVars, senderVars, gearVars, current_intensity, current_direction,
                   bridge_enabled, startup_check_running, startup_check_done,
                   initialized>>

\* FFMotorManager::update_startup_check(), called dt milliseconds after the
\* step before it; the note keeps the value it returns
MotorUpdate(dt) ==
    /\ now + dt <= MotorMaxTime
    /\ now' = now + dt
    /\ IF ~startup_check_running
       THEN /\ motor_last' = MotorNote("update", "none", 0, FALSE)
            /\ UNCHANGED <<startup_phase, phase_start_time, pwm_duty,
                           startup_check_running, startup_check_done, initialized>>
       ELSE IF now' - phase_start_time >= PHASE_DURATION_MS
       THEN /\ startup_phase' = startup_phase + 1
            /\ phase_start_time' = now'
            /\ pwm_duty' = IF startup_phase' = 1
                           THEN [R |-> startup_pwm_value, L |-> 0]
                           ELSE IF startup_phase' \in {2, 3}
                           THEN [R |-> 0, L |-> 0]
                           ELSE pwm_duty
            /\ IF startup_phase' = 3
               THEN /\ startup_check_running' = FALSE
                    /\ startup_check_done' = TRUE
                    /\ initialized' = TRUE
                    /\ motor_last' = MotorNote("update", "none", 0, FALSE)
               ELSE /\ motor_last' = MotorNote("update", "none", 0, TRUE)
                    /\ UNCHANGED <<startup_check_running, startup_check_done,
                                   initialized>>
       ELSE /\ motor_last' = MotorNote("update", "none", 0, TRUE)
            /\ UNCHANGED <<startup_phase, phase_start_time, pwm_duty,
                           startup_check_running, startup_check_done, initialized>>
    /\ UNCHANGED <<channelVars, senderVars, gearVars, current_intensity, current_direction,
                   bridge_enabled>>

InitMotor ==
    /\ InitCommon
    /\ focus = "all"
    /\ eeprom = Blank(255)

NextMotor ==
    \/ MotorBegin
    \/ \E direction \in Directions, intensity \in Intensities :
           SetForce(direction, intensity)
    \/ MotorStart
    \/ \E dt \in MotorSteps : MotorUpdate(dt)

SpecMotor == InitMotor /\ [][NextMotor]_vars

\* the main loop keeps calling update_startup_check() while the clock advances
SpecMotorLoop ==
    /\ InitMotor
    /\ [][NextMotor]_vars
    /\ WF_vars(\E dt \in MotorSteps \ {0} : MotorUpdate(dt))

\* ---------------------------------------------------------------------------
\* SerialSenderManager (serial_sender_manager.cpp): commands to the host,
\* values sent on change.
\* ---------------------------------------------------------------------------

\* the values the main loop passes to send_throttle / send_brake (0..100)
\* and to send_steering (-100..100)
SendVals(kind) == IF kind = "steering" THEN {-50, 0, 50} ELSE {0, 50}

SenderNote(op, kind, val, emitted) ==
    [op |-> op, kind |-> kind, val |-> val, emitted |-> emitted]

\* SerialSenderManager::begin(): one line of log, no field written
SenderBegin ==
    /\ sender_last' = SenderNote("begin", "none", 0, FALSE)
    /\ UNCHANGED <<channelVars, now, gearVars, motorVars, last_sent, serial_up,
                   wire, sender_called>>

\* the host opens or closes the port: (bool)Serial changes
SerialLink ==
    /\ serial_up' = ~serial_up
    /\ UNCHANGED <<channelVars, now, gearVars, motorVars, last_sent, wire,
                   sender_called, sender_last>>

\* send_throttle / send_brake / send_steering (value): past the test of the
\* last value send_command() prints the message if (Serial), and the value
\* is recorded in both cases
SendValue(kind, value) ==
    /\ sender_called' = [sender_called EXCEPT ![kind] = TRUE]
    /\ IF value # last_sent[kind]
       THEN /\ last_sent' = [last_sent EXCEPT ![kind] = value]
            /\ wire' = IF serial_up
                       THEN [wire EXCEPT ![kind] = [any |-> TRUE, val |-> value]]
                       ELSE wire
            /\ sender_last' = SenderNote("send", kind, value, serial_up)
       ELSE /\ sender_last' = SenderNote("send", kind, value, FALSE)
            /\ UNCHANGED <<last_sent, wire>>
    /\ UNCHANGED <<channelVars, now, gearVars, motorVars, serial_up>>

\* send_gear_up / send_gear_down
SendGear(b) ==
    /\ sender_last' = SenderNote("gear", b, 0, serial_up)
    /\ UNCHANGED <<channelVars, now, gearVars, motorVars, last_sent, serial_up,
                   wire, sender_called>>

InitSender ==
    /\ InitCommon
    /\ focus = "all"
    /\ eeprom = Blank(255)

NextSender ==
    \/ SenderBegin
    \/ SerialLink
    \/ \E kind \in Channels : \E value \in SendVals(kind) : SendValue(kind, value)
    \/ \E b \in Buttons : SendGear(b)

SpecSender == InitSender /\ [][NextSender]_vars

----------------------------------------------------------------------------
(* Properties                                                              *)
(*                                                                         *)
(* The history variable last names the operation of a step: every         *)
(* operation of EncoderCalibration records itself there, an accepted save  *)
(* as "save_ok" with its arguments in committed, a rejected one as         *)
(* "save_rejected".  In the step properties the tests on last come first:  *)
(* they are implied by the action that follows them and spare its          *)
(* evaluation on the steps of other operations.                            *)

\* the bytes of the EEPROM that hold the record of channel ch
StoredRecord(ch) ==
    [k \in 0 .. (SIZEOF_CalibrationData - 1) |-> eeprom[eeprom_address(ch) + k]]

Fields(d) == <<d.min_value, d.max_value, d.center_value>>

DefaultFields(ch) == IF is_bipolar(ch) THEN <<0, 600, 300>> ELSE <<0, 600, 0>>

\* a record that passes all three checks of load_calibration
Validated(d) == is_valid(d) /\ verify_checksum(d) /\ d.min_value < d.max_value

\* C1: the regions of the three channels are pairwise disjoint, so a save or
\* a default-write of begin() on one channel leaves every byte of the other
\* channels' stored records as it was.
C1_WritesStayInOwnRegion ==
    [][\A ch \in Channels :
          (last'.ch = ch /\ last'.op \in {"save_ok", "begin_defaults"})
              => \A other \in Channels \ {ch} : StoredRecord(other)' = StoredRecord(other)]_vars

\* C2: once a channel has accepted a save, every later start-up of the three
\* channels, whatever the other two saved or default-wrote meanwhile, loads
\* that channel's record: its min, max and center in memory are the saved
\* ones.
C2_CalibrationSurvivesPowerCycle ==
    \A ch \in Channels :
        ((\A c \in Channels : attached[c]) /\ committed[ch] # None)
            => Fields(cal_data[ch]) = committed[ch]

\* C3: save_calibration(min, max, center) with min < max is accepted, with
\* or without a session; a load_calibration() right after it returns true
\* and leaves exactly min, max and center in memory, under the magic number
\* and a checksum that verifies.
C3_SaveThenLoadRoundTrip ==
    /\ [](\A ch \in Channels : \A a, b, c \in CalVals :
            a < b => LET r == save_calibration(cal_data[ch], eeprom, eeprom_address(ch),
                                               is_calibrating[ch], a, b, c)
                     IN  r.ok /\ Fields(r.data) = <<a, b, c>>)
    /\ [][\A ch \in Channels :
             /\ (last'.op = "save_ok" /\ last'.ch = ch)
                   => Fields(cal_data'[ch]) = committed'[ch]
             /\ (last.op = "save_ok" /\ last.ch = ch
                     /\ last'.op \in {"load_ok", "load_failed"} /\ CalLoad(ch))
                   => /\ last'.op = "load_ok"
                      /\ Fields(cal_data'[ch]) = committed[ch]
                      /\ is_valid(cal_data'[ch])
                      /\ verify_checksum(cal_data'[ch])]_vars

C3_Witness ==
    \E ch \in Channels :
        /\ last.op = "load_ok" /\ last.prev = "save_ok" /\ last.ch = ch
        /\ cal_raw_max[ch] = 700
        /\ Fields(cal_data[ch]) = <<-1, 600, -1>>

\* C4: save_calibration with min >= max returns false and leaves the EEPROM,
\* cal_data, is_calibrating, cal_raw_min and cal_raw_max as they were.
C4_RejectedSaveChangesNothing ==
    /\ [](\A ch \in Channels : \A a, b, c \in CalVals :
            a >= b => ~save_calibration(cal_data[ch], eeprom, eeprom_address(ch),
                                        is_calibrating[ch], a, b, c).ok)
    /\ [][last'.op = "save_rejected"
             => UNCHANGED <<eeprom, cal_data, is_calibrating,
                            cal_raw_min, cal_raw_max>>]_vars

C4_Witness ==
    \E ch \in Channels :
        /\ last.op = "save_rejected" /\ last.ch = ch
        /\ is_calibrating[ch]
        /\ cal_raw_min[ch] = -5 /\ cal_raw_max[ch] = 700

\* C5: a load_calibration() that returns false leaves cal_data as it was
\* before the call.
C5_FailedLoadKeepsMemory ==
    [][\A ch \in Channels :
          (last'.op = "load_failed" /\ last'.ch = ch /\ CalLoad(ch))
              => cal_data'[ch] = cal_data[ch]]_vars

\* C6: begin() on storage whose load fails leaves the polarity defaults,
\* under the magic number and a verifying checksum, both in memory and in
\* the EEPROM, and a load_calibration() right after it returns true; begin()
\* on storage whose load succeeds writes nothing.
C6_BeginSelfHeals ==
    [][\A ch \in Channels :
          /\ (last'.ch = ch /\ last'.op \in {"begin_loaded", "begin_defaults"}
                  /\ CalBegin(ch)) =>
                IF load_calibration(eeprom, eeprom_address(ch)).ok
                THEN last'.op = "begin_loaded" /\ eeprom' = eeprom
                ELSE /\ last'.op = "begin_defaults"
                     /\ Fields(cal_data'[ch]) = DefaultFields(ch)
                     /\ Validated(cal_data'[ch])
                     /\ EEPROM_get(eeprom', eeprom_address(ch)) = cal_data'[ch]
          /\ (last.op \in {"begin_loaded", "begin_defaults"} /\ last.ch = ch
                  /\ last'.op \in {"load_ok", "load_failed"} /\ CalLoad(ch))
                => last'.op = "load_ok"]_vars

C6_Witness ==
    \E ch \in Channels :
        /\ last.op = "begin_defaults" /\ last.ch = ch
        /\ Fields(cal_data[ch]) = DefaultFields(ch)
        /\ EEPROM_get(eeprom, eeprom_address(ch)) = cal_data[ch]

\* C7: after one bit of the magic, min, max, center or checksum of a saved
\* record has flipped, load_calibration() returns false and begin() replaces
\* the record by the polarity defaults.
C7_SingleBitFlipDetected ==
    [][\A ch \in Channels :
          /\ (last.op = "flip" /\ last.ch = ch
                  /\ last'.op \in {"load_ok", "load_failed"} /\ CalLoad(ch))
                => last'.op = "load_failed"
          /\ (last.op = "flip" /\ last.ch = ch
                  /\ last'.op \in {"begin_loaded", "begin_defaults"} /\ CalBegin(ch))
                => /\ last'.op = "begin_defaults"
                   /\ Fields(cal_data'[ch]) = DefaultFields(ch)
                   /\ Fields(EEPROM_get(eeprom', eeprom_address(ch))) = DefaultFields(ch)]_vars

C7_Witness ==
    \E ch \in Channels :
        /\ last.op = "begin_defaults" /\ last.prev = "flip" /\ last.ch = ch
        /\ committed[ch] # None
        /\ Fields(cal_data[ch]) # committed[ch]

\* C8: once begin() of a channel has returned, its cal_data carries the
\* magic number, a checksum that verifies, and min < max, whatever update(),
\* start_calibration(), save_calibration(), reset() and the encoder
\* interrupt do.
C8_RecordValidatedAfterBegin ==
    \A ch \in Channels : attached[ch] => Validated(cal_data[ch])

C8_Witness ==
    \E ch \in Channels :
        /\ attached[ch]
        /\ last.op = "save_rejected" /\ last.ch = ch
        /\ encoder_position[ch] # 0
        /\ committed[ch] # None

\* raw positions tried on a record that lacks the magic number
C9Raws == {INT32_MIN, -1, 0, 1, 300, 600, 601, INT32_MAX}

\* C9: while cal_data lacks the magic number map_to_percent returns 0 for
\* every raw position and either polarity; a channel is in that condition
\* until its begin() has run, so an update() before begin() leaves
\* current_value 0.
C9_InvalidRecordMapsToZero ==
    \A ch \in Channels :
        /\ ~attached[ch] => ~is_valid(cal_data[ch])
        /\ ~is_valid(cal_data[ch]) =>
              /\ \A raw \in C9Raws \cup {encoder_position[ch]} : \A bipolar \in BOOLEAN :
                     map_to_percent(cal_data[ch], bipolar, raw) = 0
              /\ (last.op = "update" /\ last.ch = ch) => current_value[ch] = 0

C9_Witness ==
    \E ch \in Channels :
        /\ ~attached[ch]
        /\ last.op = "update" /\ last.ch = ch
        /\ is_bipolar(ch)

\* C10: under a unipolar record with the magic number and min < max,
\* map_to_percent(min) is 0, map_to_percent(max) is 100, and the result does
\* not decrease when the raw position grows.
C10_UnipolarEndpointsAndMonotone ==
    \A ch \in Channels :
        (~is_bipolar(ch) /\ is_valid(cal_data[ch])
                         /\ cal_data[ch].min_value < cal_data[ch].max_value)
            => /\ map_to_percent(cal_data[ch], FALSE, cal_data[ch].min_value) = 0
               /\ map_to_percent(cal_data[ch], FALSE, cal_data[ch].max_value) = 100
               /\ \A r1, r2 \in RawsAround(cal_data[ch]) :
                      r1 <= r2 => map_to_percent(cal_data[ch], FALSE, r1)
                                      <= map_to_percent(cal_data[ch], FALSE, r2)

\* raw positions at and around the three marks of a record
MarksAround(d) ==
    RawsAround(d) \cup {Sub32(d.center_value, 1), Add32(d.center_value, 1)}

\* the record of a channel has the magic number and min < max
Usable(d) == is_valid(d) /\ d.min_value < d.max_value

\* C11: under a bipolar record with the magic number and min < max, whatever
\* its center, map_to_percent(center) is 0, map_to_percent(min) is -100 and
\* map_to_percent(max) is 100.
C11_BipolarMarks ==
    \A ch \in Channels :
        (is_bipolar(ch) /\ Usable(cal_data[ch]))
            => /\ map_to_percent(cal_data[ch], TRUE, cal_data[ch].center_value) = 0
               /\ map_to_percent(cal_data[ch], TRUE, cal_data[ch].min_value) = -100
               /\ map_to_percent(cal_data[ch], TRUE, cal_data[ch].max_value) = 100

\* C12: under a bipolar record with the magic number and min < max, whatever
\* its center, the result of map_to_percent does not decrease when the raw
\* position grows, on either side of center and across it.
C12_BipolarMonotone ==
    \A ch \in Channels :
        (is_bipolar(ch) /\ Usable(cal_data[ch]))
            => \A r1, r2 \in MarksAround(cal_data[ch]) :
                   r1 <= r2 => map_to_percent(cal_data[ch], TRUE, r1)
                                   <= map_to_percent(cal_data[ch], TRUE, r2)

\* C13: under a record with the magic number and min < max, whatever its
\* center, map_to_percent never calls map() with in_min = in_max, and its result
\* is the result of the call it makes; on a bipolar record with
\* center = max every raw position >= max gives 0, and with center = min
\* every raw position <= min gives 0.
C13_NoZeroWidthInterpolation ==
    \A ch \in Channels :
        Usable(cal_data[ch]) =>
            \A raw \in MarksAround(cal_data[ch]) :
                \E d \in {cal_data[ch]} :
                \E a \in {map_arguments(d, is_bipolar(ch), raw)} :
                \E out \in {map_to_percent(d, is_bipolar(ch), raw)} :
                    /\ a # None => /\ a[2] # a[3]
                                   /\ out = map(a[1], a[2], a[3], a[4], a[5])
                    /\ a = None => out = 0
                    /\ (is_bipolar(ch) /\ d.center_value = d.max_value
                                       /\ raw >= d.max_value) => out = 0
                    /\ (is_bipolar(ch) /\ d.center_value = d.min_value
                                       /\ raw <= d.min_value) => out = 0

C13_Witness ==
    /\ probe.ch \in Channels
    /\ is_bipolar(probe.ch)
    /\ Usable(cal_data[probe.ch])
    /\ cal_data[probe.ch].center_value = cal_data[probe.ch].max_value
    /\ probe.raw > cal_data[probe.ch].max_value
    /\ probe.out = 0

\* C14: in every state, before and after begin() and whatever the encoder
\* interrupt and the main-cycle operations do, current_value (what
\* get_value() returns) is within 0 .. 100 on the throttle and brake channels
\* and within -100 .. 100 on the steering channel.
C14_ValueWithinNominalRange ==
    /\ current_value["throttle"] \in 0 .. 100
    /\ current_value["brake"] \in 0 .. 100
    /\ current_value["steering"] \in -100 .. 100

\* an update() has mapped a position beyond the calibrated range
C14_Witness ==
    \E ch \in Channels :
        /\ attached[ch]
        /\ last.op = "update" /\ last.ch = ch
        /\ updating = "none"
        /\ encoder_position[ch] < cal_data[ch].min_value
        /\ current_value[ch] = NominalLow(ch)
        /\ cal_data[ch].max_value - cal_data[ch].min_value = 1

\* C15: a call of encoder_isr() that reads a CLK level other than last_clk
\* moves encoder_position by exactly +1 when the DT level differs from the
\* new CLK level and by exactly -1 when it equals it, whatever the record
\* holds, with the position inside or outside [min, max] and with a
\* calibration session active or not; it changes nothing of the calibration.
C15_DecoderCounts ==
    [][\A ch \in Channels : \A clk, dt \in {LOW, HIGH} :
           (last_clk[ch] # clk /\ last_clk'[ch] = clk /\ Isr(ch, clk, dt))
               => /\ encoder_position'[ch] =
                         encoder_position[ch] + (IF dt # clk THEN 1 ELSE -1)
                  /\ cal_data' = cal_data
                  /\ is_calibrating' = is_calibrating]_vars

\* edges have carried the position below the calibrated range during a
\* session
C15_Witness ==
    \E ch \in Channels :
        /\ attached[ch]
        /\ is_calibrating[ch]
        /\ encoder_position[ch] = -1
        /\ cal_data[ch].min_value = 0

\* C16: in every update(), idle or calibrating, with encoder_isr() free to
\* run anywhere inside it, the position passed to update_calibration and
\* the position passed to map_to_percent are one and the same sample.
C16_SingleSnapshot ==
    [][\A ch \in Channels :
           (updating = ch /\ updating' = "none" /\ last'.op = "update"
                          /\ is_calibrating[ch])
               => encoder_position[ch] = sampled]_vars

\* C17: once begin() has attached encoder_isr(), encoder_position and
\* last_clk of the channel change only in a call of encoder_isr(): no
\* operation of the main cycle writes either.
C17_PositionWrittenByIsrOnly ==
    [][\A ch \in Channels :
           (attached[ch] /\ attached'[ch]
               /\ (encoder_position'[ch] # encoder_position[ch]
                      \/ last_clk'[ch] # last_clk[ch]))
               => \E clk, dt \in {LOW, HIGH} : Isr(ch, clk, dt)]_vars

\* C18: power cycles aside, is_calibrating of a channel turns true only in
\* a start_calibration() of that channel and turns false only in a
\* save_calibration() of that channel that returns true; update(), reset(),
\* a rejected save and encoder_isr() leave it as it is, so a session that
\* is not saved stays open.
C18_SessionStateMachine ==
    [][\A ch \in Channels :
           (is_calibrating'[ch] # is_calibrating[ch] /\ last'.op # "power")
               => IF is_calibrating'[ch]
                  THEN StartCalibration(ch)
                  ELSE /\ last'.op = "save_ok" /\ last'.ch = ch
                       /\ \E a, b \in ChanEnds, c \in ChanVals :
                              SaveCalibration(ch, a, b, c)]_vars

\* a session has outlived an update(), edges, and a rejected save
C18_Witness ==
    \E ch \in Channels :
        /\ attached[ch]
        /\ is_calibrating[ch]
        /\ last.op = "save_rejected" /\ last.ch = ch
        /\ cal_raw_min[ch] < cal_raw_max[ch]

\* C19: the EEPROM changes only in the begin() of a channel and in a
\* save_calibration() that returns true; once the begin() of a channel has
\* returned, its update(), start_calibration(), reset(), rejected saves and
\* encoder_isr() leave every byte as it is.
C19_OnlySaveWritesStorage ==
    [][eeprom' # eeprom
          => \E ch \in Channels :
                 \/ ~attached[ch] /\ Begin(ch)
                 \/ /\ attached[ch]
                    /\ last'.op = "save_ok" /\ last'.ch = ch
                    /\ \E a, b \in ChanEnds, c \in ChanVals :
                           SaveCalibration(ch, a, b, c)]_vars

\* an operation other than an accepted save has followed an accepted save
\* and edges of the encoder, the stored record still being the saved one
C19_Witness ==
    \E ch \in Channels :
        /\ attached[ch]
        /\ committed[ch] # None
        /\ last.op \in {"save_rejected", "reset", "update", "start"} /\ last.ch = ch
        /\ encoder_position[ch] # 0
        /\ Fields(EEPROM_get(eeprom, eeprom_address(ch))) = committed[ch]

\* C20: on every channel and under every record that begin() or an accepted
\* save leaves in memory, the update() that follows a reset() and finds
\* encoder_position still 0 leaves current_value 0.
C20_ResetReturnsToRest ==
    [][\A ch \in Channels :
           (attached[ch] /\ last.op = "reset" /\ last.ch = ch
               /\ updating = ch /\ updating' = "none" /\ last'.op = "update"
               /\ encoder_position[ch] = 0)
               => current_value'[ch] = 0]_vars

\* trunc(a * d / w) for 0 <= d <= w, a < 2^n, by long multiplication over the n
\* low bits of a, so that no intermediate value leaves 32 bits; q and r are
\* the quotient and the remainder of the bits of a already taken in
RECURSIVE ScaleBits(_, _, _, _, _, _)
ScaleBits(a, d, w, n, q, r) ==
    IF n = 0 THEN q
    ELSE LET bit == (a \div Pow2(n - 1)) % 2
             r2  == 2 * r + bit * d
         IN  ScaleBits(a, d, w, n - 1, 2 * q + (r2 \div w), r2 % w)

\* trunc(d * 100 / w) in unbounded arithmetic, for 0 <= d <= w
Percent(d, w) == ScaleBits(100, d, w, 7, 0, 0)

\* the reference interpolation of a raw position under a record with
\* min <= center <= max
Reference(d, bipolar, raw) ==
    LET c == constrain(raw, d.min_value, d.max_value)
    IN  IF ~bipolar
        THEN Percent(c - d.min_value, d.max_value - d.min_value)
        ELSE IF c < d.center_value
             THEN -100 + Percent(c - d.min_value, d.center_value - d.min_value)
             ELSE IF d.center_value < d.max_value
                  THEN Percent(c - d.center_value, d.max_value - d.center_value)
                  ELSE 0

\* C21: under a record with the magic number and min <= center <= max,
\* min < max, map_to_percent returns for every raw position r, with c the
\* position clamped into [min, max]: trunc((c-min)*100/(max-min)) on a
\* unipolar channel; on a bipolar one -100 + trunc((c-min)*100/(center-min))
\* when c < center and trunc((c-center)*100/(max-center)) when c >= center
\* and center < max.
C21_ReferenceInterpolation ==
    \A ch \in Channels :
        (Usable(cal_data[ch])
            /\ cal_data[ch].min_value <= cal_data[ch].center_value
            /\ cal_data[ch].center_value <= cal_data[ch].max_value)
            => \A raw \in MarksAround(cal_data[ch]) \cup {150, 300, 700} :
                   (is_bipolar(ch) /\ cal_data[ch].center_value = cal_data[ch].max_value
                                   /\ raw >= cal_data[ch].max_value)
                   \/ map_to_percent(cal_data[ch], is_bipolar(ch), raw)
                          = Reference(cal_data[ch], is_bipolar(ch), raw)

C22_SessionTracksExtremes ==
    /\ [](\A ch \in Channels :
             is_calibrating[ch]
                 => \/ cal_raw_min[ch] = INT32_MAX /\ cal_raw_max[ch] = INT32_MIN
                    \/ /\ cal_raw_min[ch] <= cal_raw_max[ch]
                       /\ cal_raw_min[ch] # INT32_MAX
                       /\ cal_raw_max[ch] # INT32_MIN)
    /\ [][\A ch \in Channels :
             /\ (updating = "none" /\ updating' = ch)
                    => IF is_calibrating[ch]
                       THEN /\ cal_raw_min'[ch] =
                                   IF encoder_position[ch] < cal_raw_min[ch]
                                   THEN encoder_position[ch] ELSE cal_raw_min[ch]
                            /\ cal_raw_max'[ch] =
                                   IF encoder_position[ch] > cal_raw_max[ch]
                                   THEN encoder_position[ch] ELSE cal_raw_max[ch]
                       ELSE /\ cal_raw_min'[ch] = cal_raw_min[ch]
                            /\ cal_raw_max'[ch] = cal_raw_max[ch]
             /\ (last'.op = "start" /\ last'.ch = ch /\ StartCalibration(ch))
                    => /\ cal_raw_min'[ch] = INT32_MAX
                       /\ cal_raw_max'[ch] = INT32_MIN
             /\ (cal_raw_min'[ch] # cal_raw_min[ch] \/ cal_raw_max'[ch] # cal_raw_max[ch])
                    => \/ updating = "none" /\ updating' = ch /\ is_calibrating[ch]
                       \/ last'.op = "start" /\ last'.ch = ch /\ StartCalibration(ch)
                       \/ last'.op = "power"]_vars

\* a session has sampled both ends of the travel
C22_Witness ==
    \E ch \in Channels :
        /\ is_calibrating[ch]
        /\ last.op = "update" /\ last.ch = ch
        /\ cal_raw_min[ch] = -1
        /\ cal_raw_max[ch] = 1

\* C23: a call of encoder_isr() that reads the CLK level last_clk already
\* holds changes neither encoder_position nor last_clk; a call that reads
\* the other level counts and sets last_clk to the level read; either way
\* the record, the session, current_value and the EEPROM stay as they are.
C23_IsrCountsEdgesOnly ==
    [][\A ch \in Channels : \A clk, dt \in {LOW, HIGH} :
           (last' = last /\ updating' = updating /\ Isr(ch, clk, dt))
               => /\ clk = last_clk[ch]
                        => /\ encoder_position'[ch] = encoder_position[ch]
                           /\ last_clk'[ch] = last_clk[ch]
                  /\ clk # last_clk[ch]
                        => /\ encoder_position'[ch] # encoder_position[ch]
                           /\ last_clk'[ch] = clk
                  /\ UNCHANGED <<cal_data, is_calibrating, cal_raw_min, cal_raw_max,
                                 current_value, eeprom>>]_vars

\* edges counted after an update() have moved the position and left the
\* percentage of that update() in place
C23_Witness ==
    \E ch \in Channels :
        /\ attached[ch]
        /\ updating = "none"
        /\ last.op = "update" /\ last.ch = ch
        /\ last_clk[ch] = LOW
        /\ current_value[ch] #
               constrain(map_to_percent(cal_data[ch], is_bipolar(ch), encoder_position[ch]),
                         NominalLow(ch), NominalHigh(ch))


\* the step is a call of GearManager::update()
IsGearUpdate == gear_last'.op = "update" /\ now' > now

\* C25: an update() marks a button as pressed only when the pin reads LOW, the
\* recorded state is HIGH and more than DEBOUNCE_DELAY has passed since the
\* previous reading that differed from the recorded state (the time the
\* manager records at every such reading, and at no other moment); a change
\* seen within the window gives no press and leaves the recorded state.
C25_DebounceSafety ==
    [][\A b \in Buttons :
           /\ IsGearUpdate =>
                 /\ gear_pressed'[b] =>
                       /\ gear_pin[b] = LOW
                       /\ last_gear_state[b] = HIGH
                       /\ now' - last_gear_time[b] > DEBOUNCE_DELAY
                 /\ (gear_pin[b] # last_gear_state[b]
                        /\ now' - last_gear_time[b] <= DEBOUNCE_DELAY)
                       => /\ ~gear_pressed'[b]
                          /\ last_gear_state'[b] = last_gear_state[b]
                 /\ last_gear_time'[b] =
                       IF gear_pin[b] # last_gear_state[b]
                       THEN now' ELSE last_gear_time[b]
           /\ ~IsGearUpdate =>
                 /\ last_gear_time'[b] = last_gear_time[b]
                 /\ gear_pressed'[b] => gear_pressed[b]]_vars

\* an update has just rejected a release of one button, seen within the
\* window, and accepted a press of the other
C25_Witness ==
    /\ gear_last.op = "update"
    /\ \E b, c \in Buttons :
           /\ gear_pin[b] = HIGH /\ last_gear_state[b] = LOW
           /\ last_gear_time[b] = now
           /\ ~gear_pressed[b]
           /\ gear_pressed[c]

\* C26: polled at intervals shorter than DEBOUNCE_DELAY, every press made
\* after begin() and held LOW for longer than DEBOUNCE_DELAY has been reported
\* by exactly one update() when the button is released.
C26_ReliablePress ==
    [][\A b \in Buttons :
           (/\ gear_pin[b] = LOW /\ gear_pin'[b] = HIGH
            /\ gear_reports[b] >= 0
            /\ gear_held[b] > DEBOUNCE_DELAY)
               => gear_reports[b] = 1]_vars

\* C27: a query returns the flag of its button, clears it and leaves the other
\* flag; a flag is raised by an update() that detects a press and by nothing
\* else, and an update() that detects none clears it (reset() clears both).
C27_SingleShot ==
    [][\A b \in Buttons :
           /\ (now' = now /\ gear_pin' = gear_pin /\ gear_last'.op = "query"
                  /\ IsGearPressed(b))
                 => /\ gear_last'.out = gear_pressed[b]
                    /\ ~gear_pressed'[b]
                    /\ \A c \in Buttons \ {b} : gear_pressed'[c] = gear_pressed[c]
           /\ IsGearUpdate =>
                 gear_pressed'[b] =
                     /\ gear_pin[b] = LOW /\ last_gear_state[b] = HIGH
                     /\ now' - last_gear_time[b] > DEBOUNCE_DELAY
           /\ (~gear_pressed[b] /\ gear_pressed'[b]) => IsGearUpdate
           /\ (gear_pressed[b] /\ ~gear_pressed'[b])
                 => \/ IsGearUpdate
                    \/ gear_last'.op = "reset"
                    \/ gear_last' = [op |-> "query", b |-> b, out |-> TRUE]]_vars

\* the query of the up button has just returned true while the press of the
\* down button, detected by the same update, is still to be read
C27_Witness ==
    /\ gear_last = [op |-> "query", b |-> "up", out |-> TRUE]
    /\ ~gear_pressed["up"]
    /\ gear_pressed["down"]


\* the argument of set_force() brought into [0,100]
Clamped(intensity) ==
    IF intensity < 0 THEN 0 ELSE IF intensity > 100 THEN 100 ELSE intensity

\* C28: a call of set_force() made while is_ready() holds stores the direction
\* and the intensity clamped into [0,100] and writes the duties of that
\* direction; a call made in any other state leaves both duties,
\* current_intensity and current_direction as they were.
C28_SetForceGated ==
    [][motor_last'.op = "set_force" =>
          IF is_ready
          THEN /\ current_intensity' = Clamped(motor_last'.val)
               /\ current_direction' = motor_last'.dir
               /\ pwm_duty' = force_duties(motor_last'.dir,
                                   (Clamped(motor_last'.val) * 255) \div 100)
          ELSE UNCHANGED <<pwm_duty, current_intensity, current_direction>>]_vars

\* set_force("LEFT", 150) has just taken effect
C28_Witness ==
    /\ motor_last = MotorNote("set_force", "LEFT", 150, FALSE)
    /\ is_ready
    /\ current_intensity = 100
    /\ current_direction = "LEFT"
    /\ pwm_duty = [R |-> 0, L |-> 255]

\* C29: the phase moves only from k to k+1, in a call of
\* update_startup_check() made PHASE_DURATION_MS or more after the phase was
\* entered, or to 0 in start_startup_check(); entering phase 0, 1, 2, 3 sets
\* the duties LEFT, RIGHT, none, none at STARTUP_INTENSITY, and during a
\* self-test only begin() changes them otherwise; update_startup_check()
\* returns true in a running self-test until the call that enters phase 3,
\* and false in that call and whenever no self-test runs.
C29_PhaseOrder ==
    /\ [](startup_check_running => startup_phase \in 0..2)
    /\ [][/\ motor_last'.op = "start" =>
               /\ startup_phase' = 0 /\ startup_check_running'
               /\ phase_start_time' = now'
               /\ pwm_duty' = [R |-> 0, L |-> 51]
          /\ startup_phase' # startup_phase =>
               \/ motor_last'.op = "start"
               \/ /\ motor_last'.op = "update"
                  /\ startup_check_running
                  /\ startup_phase' = startup_phase + 1
                  /\ now' - phase_start_time >= PHASE_DURATION_MS
                  /\ phase_start_time' = now'
                  /\ pwm_duty' = IF startup_phase' = 1
                                 THEN [R |-> 51, L |-> 0] ELSE [R |-> 0, L |-> 0]
          /\ phase_start_time' # phase_start_time =>
               \/ motor_last'.op = "start"
               \/ startup_phase' = startup_phase + 1
          /\ (startup_check_running /\ pwm_duty' # pwm_duty) =>
               \/ motor_last'.op \in {"start", "begin"}
               \/ startup_phase' = startup_phase + 1
          /\ startup_check_running' # startup_check_running =>
               \/ motor_last'.op = "start"
               \/ motor_last'.op = "update" /\ startup_phase' = 3
          /\ motor_last'.op = "update" =>
               motor_last'.ret = (startup_check_running /\ startup_phase' < 3)]_vars

\* the call that entered phase 3 has returned false, three phases of
\* PHASE_DURATION_MS after the start at 0
C29_Witness ==
    /\ motor_last = MotorNote("update", "none", 0, FALSE)
    /\ startup_phase = 3
    /\ ~startup_check_running
    /\ phase_start_time = 3 * PHASE_DURATION_MS
    /\ now = phase_start_time

\* the state a finished self-test leaves
Finished ==
    /\ is_ready
    /\ ~is_checking
    /\ pwm_duty = [R |-> 0, L |-> 0]

\* C30: with update_startup_check() called again and again as the clock
\* advances, a running self-test leads to a call that finishes it, and the
\* state it leaves (ready, not checking, both duties 0) lasts through every
\* step that is not a set_force(), a start_startup_check() or a begin().
C30_CheckCompletes ==
    /\ startup_check_running ~>
           (Finished /\ motor_last = MotorNote("update", "none", 0, FALSE))
    /\ [][(Finished /\ motor_last'.op \notin {"set_force", "start", "begin"})
             => Finished']_vars

\* a self-test started after an earlier one had finished has finished too
C30_Witness ==
    /\ Finished
    /\ motor_last = MotorNote("update", "none", 0, FALSE)
    /\ startup_phase = 3
    /\ now >= 6 * PHASE_DURATION_MS
    /\ phase_start_time = now


\* the bridge is disabled, nothing is driven and the motor is not ready
Quiet ==
    /\ ~bridge_enabled
    /\ pwm_duty = [R |-> 0, L |-> 0]
    /\ ~is_ready

\* C31: begin() leaves both enable pins LOW, both duties 0 and is_ready()
\* false, and no set_force() or update_startup_check() made before the next
\* start_startup_check() changes that.  Only begin() drives the enable pins
\* LOW and only start_startup_check() drives them HIGH, so once begin() has
\* run the pins are LOW exactly from a begin() to the next start.
C31_DisabledUntilStart ==
    [][/\ motor_last'.op = "begin" => Quiet'
       /\ (Quiet /\ motor_last'.op \in {"set_force", "update"}) => Quiet']_vars

\* C32: after every operation of FFMotorManager at most one of the two PWM
\* channels has a duty other than 0.
C32_OneDirection ==
    ~(pwm_duty["R"] # 0 /\ pwm_duty["L"] # 0)

\* set_force("RIGHT", 40) has just driven RPWM, and it was the self-test or
\* an earlier set_force that had driven LPWM before
C32_Witness ==
    /\ motor_last = MotorNote("set_force", "RIGHT", 40, FALSE)
    /\ pwm_duty = [R |-> 102, L |-> 0]
    /\ current_direction = "RIGHT"


\* the step is a call of send_throttle, send_brake or send_steering
IsSend(kind) ==
    /\ serial_up' = serial_up
    /\ sender_last'.op = "send"
    /\ sender_last'.kind = kind

\* C33: a send_ function puts a message on the line only when the value
\* differs from the one recorded for its kind, a message never carries the
\* value of the message of the same kind before it, the first call for
\* throttle and for brake always gives a message and a first call for
\* steering with 0 gives none.
C33_SendOnChange ==
    [][\A kind \in Channels :
           IsSend(kind) =>
               /\ sender_last'.emitted => sender_last'.val # last_sent[kind]
               /\ (sender_last'.emitted /\ wire[kind].any)
                     => sender_last'.val # wire[kind].val
               /\ ~sender_called[kind] =>
                     /\ kind \in {"throttle", "brake"} => sender_last'.emitted
                     /\ (kind = "steering" /\ sender_last'.val = 0)
                           => ~sender_last'.emitted]_vars

====
